---------------------------- MODULE Spec2Model ----------------------------
(***************************************************************************)
(* Model of the unix keyboard input pipeline of src/keyboard.go:           *)
(*   device -> SIGIO -> reader goroutine -> input_buf -> producer          *)
(*   goroutine (inputEventsProducer, extract_event) -> input_comm ->       *)
(*   consumer, with releaseConsole sending on quit.                        *)
(*                                                                         *)
(* Bytes are naturals 0..255, byte strings are sequences of bytes.  A      *)
(* keyEvent is a record [key, rune, err] like the Go struct; err is a      *)
(* boolean (an error value is present or not).                             *)
(***************************************************************************)
EXTENDS Naturals, Sequences, FiniteSets

VARIABLES
    keys,       \* the escape-sequence table (ordered), set by setup_term
    script,     \* bytes the terminal will still send (environment)
    dev,        \* bytes waiting on the device, not yet read
    errs,       \* number of failed reads so far (environment, bounded)
    sigio,      \* TRUE when a SIGIO notification sits in the 1-slot channel
    pcR,        \* reader goroutine: "idle", "wait", "read", "send", "stopped"
    chunk,      \* the input_event the reader is trying to send
    pcP,        \* producer: "idle", "start", "recv", "emit", "emitErr",
                \* "stopped", "panic"
    inbuf,      \* the accumulation buffer
    pend,       \* the keyEvent the producer is forwarding in produceEvent
    pcC,        \* releaseConsole: "open", "sent" (quit delivered), "closed"
    quitBy,     \* which goroutine received the value sent on quit
    delivered,  \* history: events the consumer received from input_comm
    peeled,     \* history: events the producer handed to produceEvent
    recvd,      \* history: data chunks the producer received from input_buf
    dec,        \* history: the last call of extract_event, [in, size, ev]
    pcI,        \* initConsole: "new", "ok" (returned nil), "failed"
    tios,       \* the terminal's attributes (kernel state)
    orig_tios,  \* the attributes saved by initConsole
    attr0,      \* history: the terminal's attributes before initConsole
    outOpen,    \* the write descriptor out is open
    inOpen,     \* the read descriptor in is open
    armed,      \* SIGIO is raised for in (O_ASYNC set and owner set)
    restoreErr, \* history: the ioctl of releaseConsole failed
    sigPending, \* a SIGIO raised and not yet put into the sigio channel
    zeros,      \* number of zero-length reads so far (environment, bounded)
    eaten       \* history: the bytes removed from the head of inbuf, in order

termVars == <<pcI, tios, orig_tios, attr0, outOpen, inOpen, armed, restoreErr>>

vars == <<keys, script, dev, errs, sigio, pcR, chunk, pcP, inbuf, pend,
          pcC, quitBy, delivered, peeled, recvd, dec, termVars, sigPending,
          zeros, eaten>>

----------------------------------------------------------------------------
(* Bounds of the model *)

\* longest buffer handed to extract_event by the decoder harness
MaxBuf == 3

\* number of reads of the device that may fail while it is open
MaxErrors == 2

\* number of reads of the device that may return 0 bytes and no error
MaxZeroReads == 1

----------------------------------------------------------------------------
(* Program constants *)

ESC == 27

KeyEsc == 27

KeySpace == 32

KeyBackspace2 == 127

RuneError == 65533

ReadBufSize == 128

KeyMax == 65535

----------------------------------------------------------------------------
(* Events and chunks *)

NoEvent == [key |-> 0, rune |-> 0, err |-> FALSE]

KeyEv(k) == [key |-> k, rune |-> 0, err |-> FALSE]

RuneEv(r) == [key |-> 0, rune |-> r, err |-> FALSE]

ErrEv == [key |-> 0, rune |-> 0, err |-> TRUE]

input_event(data, err) == [data |-> data, err |-> err]

NoChunk == input_event(<<>>, FALSE)

----------------------------------------------------------------------------
(* The decoder *)

Min(S) == CHOOSE x \in S : \A y \in S : x <= y

HasPrefix(s, p) == Len(p) <= Len(s) /\ SubSeq(s, 1, Len(p)) = p

\* the mutant scans the table from its end
parse_escape_sequence_Last(buf, ks) ==
    LET hit == {i \in 1..Len(ks) : HasPrefix(buf, ks[i])} IN
    IF hit = {} THEN <<0, NoEvent>>
    ELSE LET i == CHOOSE x \in hit : \A y \in hit : y <= x IN
         <<Len(ks[i]), KeyEv(KeyMax - (i - 1))>>

\* the mutant compares the first byte only
parse_escape_sequence_FirstByte(buf, ks) ==
    LET hit == {i \in 1..Len(ks) : ks[i] # <<>> /\ ks[i][1] = buf[1]} IN
    IF hit = {} THEN <<0, NoEvent>>
    ELSE LET i == Min(hit) IN
         <<Len(ks[i]), KeyEv(KeyMax - (i - 1))>>

\* for i, key := range keys: the first key that is a prefix of buf wins;
\* i is 0-based in the source, 1-based here.
parse_escape_sequence(buf, ks) ==
    LET hit == {i \in 1..Len(ks) : HasPrefix(buf, ks[i])} IN
    IF hit = {} THEN <<0, NoEvent>>
    ELSE LET i == Min(hit) IN
         <<Len(ks[i]), KeyEv(KeyMax - (i - 1))>>

\* the mutant takes every byte for a rune of its own
DecodeRune_Latin1(p) == IF Len(p) < 1 THEN <<RuneError, 0>> ELSE <<p[1], 1>>

\* utf8.DecodeRune: <<rune, size>>; (RuneError, 1) for an invalid or an
\* incomplete encoding, (RuneError, 0) for an empty input.
DecodeRune(p) ==
    LET n  == Len(p)
        p0 == p[1]
        sz == IF p0 < 224 THEN 2 ELSE IF p0 < 240 THEN 3 ELSE 4
        lo == IF p0 = 224 THEN 160 ELSE IF p0 = 240 THEN 144 ELSE 128
        hi == IF p0 = 237 THEN 159 ELSE IF p0 = 244 THEN 143 ELSE 191
        bad == <<RuneError, 1>>
    IN
    IF n < 1 THEN <<RuneError, 0>>
    ELSE IF p0 < 128 THEN <<p0, 1>>
    ELSE IF p0 < 194 \/ p0 > 244 THEN bad
    ELSE IF n < sz THEN bad
    ELSE IF p[2] < lo \/ p[2] > hi THEN bad
    ELSE IF sz = 2 THEN <<(p0 % 32) * 64 + (p[2] % 64), 2>>
    ELSE IF p[3] < 128 \/ p[3] > 191 THEN bad
    ELSE IF sz = 3
         THEN <<(p0 % 16) * 4096 + (p[2] % 64) * 64 + (p[3] % 64), 3>>
    ELSE IF p[4] < 128 \/ p[4] > 191 THEN bad
    ELSE <<(p0 % 8) * 262144 + (p[2] % 64) * 4096
             + (p[3] % 64) * 64 + (p[4] % 64), 4>>

\* the mutant consumes the escape byte only
UnmatchedEscape_One(buf) == <<1, KeyEv(KeyEsc)>>

\* "it's not a recognized escape sequence, then return Esc"
UnmatchedEscape(buf) == <<Len(buf), KeyEv(KeyEsc)>>

\* the mutant tests for a functional key before it tests for ESC
extract_event_FunctionalFirst(buf, ks) ==
    IF Len(buf) = 0 THEN <<0, NoEvent>>
    ELSE IF buf[1] <= KeySpace \/ buf[1] = KeyBackspace2
         THEN <<1, KeyEv(buf[1])>>
    ELSE IF buf[1] = ESC
         THEN LET r == parse_escape_sequence(buf, ks) IN
              IF r[1] # 0 THEN r ELSE UnmatchedEscape(buf)
    ELSE LET d == DecodeRune(buf) IN
         IF d[1] # RuneError THEN <<d[2], RuneEv(d[1])>>
         ELSE <<0, NoEvent>>

\* extract_event: <<size, event>>
extract_event(buf, ks) ==
    IF Len(buf) = 0 THEN <<0, NoEvent>>
    ELSE IF buf[1] = ESC
         THEN LET r == parse_escape_sequence(buf, ks) IN
              IF r[1] # 0 THEN r ELSE UnmatchedEscape(buf)
    ELSE IF buf[1] <= KeySpace \/ buf[1] = KeyBackspace2
         THEN <<1, KeyEv(buf[1])>>
    ELSE LET d == DecodeRune(buf) IN
         IF d[1] # RuneError THEN <<d[2], RuneEv(d[1])>>
         ELSE <<0, NoEvent>>

\* the mutant cuts the bytes off the tail
RemoveHead_Tail(buf, size) == [i \in 1..(Len(buf) - size) |-> buf[i]]

\* copy(inbuf, inbuf[size:]); inbuf = inbuf[:len(inbuf)-size]
RemoveHead(buf, size) == [i \in 1..(Len(buf) - size) |-> buf[i + size]]

----------------------------------------------------------------------------
(* Inputs: escape-sequence tables, terminal scripts, decoder buffers *)

\* ESC O P -> 0xFFFF, ESC O Q -> 0xFFFE
TableF1F2 == << <<27, 79, 80>>, <<27, 79, 81>> >>

\* a shorter entry that is a prefix of a longer one, the shorter one first
TableShortFirst == << <<27, 79>>, <<27, 79, 80>> >>

\* the same two entries, the longer one first
TableLongFirst == << <<27, 79, 80>>, <<27, 79>> >>

Tables == {TableF1F2, TableShortFirst, TableLongFirst}

\* what the terminal sends during one run
Scripts ==
    { <<27, 79, 80, 97>>,      \* ESC O P a
      <<27, 90>>,              \* ESC Z
      <<226, 130, 172>>,       \* U+20AC
      <<239, 191, 189>>,       \* U+FFFD
      <<97, 98, 13>>,          \* a b Enter
      <<255, 97>>,             \* an invalid byte, then a
      <<97, 255>> }            \* a, then an invalid byte

\* the bytes the decoder harness builds its buffers from
Alphabet ==
    {27, 32, 79, 80, 90, 97, 127, 226, 130, 172, 239, 191, 189, 255}

Buffers == UNION {[1..n -> Alphabet] : n \in 0..MaxBuf}

----------------------------------------------------------------------------
(* The producer goroutine: inputEventsProducer *)

\* size, event := extract_event(inbuf); if size != 0 { remove the head;
\* produceEvent(event) }, applied to the buffer buf
DecodeStep(buf) ==
    LET r == extract_event(buf, keys) IN
    /\ dec' = [in |-> buf, size |-> r[1], ev |-> r[2]]
    /\ IF r[1] = 0
       THEN /\ inbuf' = buf
            /\ pcP' = "recv"
            /\ UNCHANGED <<pend, peeled, eaten>>
       ELSE IF r[1] > Len(buf)
       THEN \* inbuf[size:] is out of range: the goroutine panics
            /\ inbuf' = buf
            /\ pcP' = "panic"
            /\ UNCHANGED <<pend, peeled, eaten>>
       ELSE /\ inbuf' = RemoveHead(buf, r[1])
            /\ eaten' = eaten \o SubSeq(buf, 1, r[1])
            /\ pend' = r[2]
            /\ peeled' = Append(peeled, r[2])
            /\ pcP' = "emit"

\* the mutant keeps looping after a read error
AfterErrorEvent_Loop == "recv"

\* produceEvent(keyEvent{err: ev.err}); return
AfterErrorEvent == "stopped"

\* the decode before the loop
P_Start ==
    /\ pcP = "start"
    /\ DecodeStep(inbuf)
    /\ UNCHANGED <<termVars, sigPending, zeros,
                   keys, script, dev, errs, sigio, pcR, chunk, pcC, quitBy,
                   delivered, recvd>>

\* the mutant stops the reader once an error chunk is delivered
ReaderAfterSend_StopOnError(c) == IF c.err THEN "stopped" ELSE "read"

\* case input_buf <- input_event{data, err}: continue
ReaderAfterSend(c) == "read"

\* case ev := <-input_buf, taken together with the reader's send
Transfer ==
    /\ pcR = "send"
    /\ pcP = "recv"
    /\ pcR' = ReaderAfterSend(chunk)
    /\ chunk' = NoChunk
    /\ recvd' = Append(recvd, chunk)
    /\ IF chunk.err
       THEN /\ pend' = ErrEv
            /\ peeled' = Append(peeled, ErrEv)
            /\ pcP' = "emitErr"
            /\ UNCHANGED <<inbuf, dec, eaten>>
       ELSE DecodeStep(inbuf \o chunk.data)
    /\ UNCHANGED <<termVars, sigPending, zeros,
                   keys, script, dev, errs, sigio, pcC, quitBy, delivered>>

\* produceEvent: case input_comm <- event, taken together with the consumer
P_Emit ==
    /\ pcP \in {"emit", "emitErr"}
    /\ delivered' = Append(delivered, pend)
    /\ pend' = NoEvent
    /\ pcP' = IF pcP = "emitErr" THEN AfterErrorEvent ELSE "recv"
    /\ UNCHANGED <<termVars, sigPending, zeros, eaten,
                   keys, script, dev, errs, sigio, pcR, chunk, inbuf, pcC,
                   quitBy, peeled, recvd, dec>>

----------------------------------------------------------------------------
(* The terminal and the reader goroutine *)

\* the mutant raises no SIGIO (O_ASYNC or the owner not set)
Arrive_NoSignal ==
    /\ pcI = "ok"
    /\ pcC # "closed"
    /\ script # <<>>
    /\ dev' = Append(dev, Head(script))
    /\ script' = Tail(script)
    /\ UNCHANGED <<termVars, sigPending, zeros, eaten,
                   keys, errs, sigio, pcR, chunk, pcP, inbuf, pend, pcC,
                   quitBy, delivered, peeled, recvd, dec>>

\* the terminal sends one byte; with O_ASYNC set and the owner set the
\* kernel raises SIGIO for the process (a SIGIO already pending absorbs it)
Arrive ==
    /\ pcI = "ok"
    /\ pcC # "closed"
    /\ script # <<>>
    /\ dev' = Append(dev, Head(script))
    /\ script' = Tail(script)
    /\ sigPending' = (sigPending \/ armed)
    /\ UNCHANGED <<termVars, zeros, eaten,
                   keys, errs, sigio, pcR, chunk, pcP, inbuf, pend, pcC,
                   quitBy, delivered, peeled, recvd, dec>>

\* signal.Notify(sigio, SIGIO): the runtime puts the signal into the channel
\* without blocking; with the one slot taken the signal is dropped
SigDeliver ==
    /\ sigPending
    /\ sigPending' = FALSE
    /\ sigio' = TRUE
    /\ UNCHANGED <<termVars, zeros, eaten,
                   keys, script, dev, errs, pcR, chunk, pcP, inbuf, pend,
                   pcC, quitBy, delivered, peeled, recvd, dec>>

\* case <-sigio
R_Wake ==
    /\ pcR = "wait"
    /\ sigio
    /\ sigio' = FALSE
    /\ pcR' = "read"
    /\ UNCHANGED <<termVars, sigPending, zeros, eaten,
                   keys, script, dev, errs, chunk, pcP, inbuf, pend, pcC,
                   quitBy, delivered, peeled, recvd, dec>>

\* syscall.Read(in, buf) with nothing to read: EAGAIN, break
R_ReadAgain ==
    /\ pcR = "read"
    /\ pcC # "closed"
    /\ dev = <<>>
    /\ pcR' = "wait"
    /\ UNCHANGED <<termVars, sigPending, zeros, eaten,
                   keys, script, dev, errs, sigio, chunk, pcP, inbuf, pend,
                   pcC, quitBy, delivered, peeled, recvd, dec>>

\* syscall.Read(in, buf) returns up to len(buf) bytes
R_ReadData ==
    /\ pcR = "read"
    /\ pcC # "closed"
    /\ dev # <<>>
    /\ LET n == IF Len(dev) < ReadBufSize THEN Len(dev) ELSE ReadBufSize IN
       /\ chunk' = input_event(SubSeq(dev, 1, n), FALSE)
       /\ dev' = RemoveHead(dev, n)
    /\ pcR' = "send"
    /\ UNCHANGED <<termVars, sigPending, zeros, eaten,
                   keys, script, errs, sigio, pcP, inbuf, pend, pcC, quitBy,
                   delivered, peeled, recvd, dec>>

\* syscall.Read(in, buf) returns 0 and no error (end of file): an empty,
\* error-free chunk is sent
R_ReadZero ==
    /\ pcR = "read"
    /\ pcC # "closed"
    /\ dev = <<>>
    /\ zeros < MaxZeroReads
    /\ zeros' = zeros + 1
    /\ chunk' = input_event(<<>>, FALSE)
    /\ pcR' = "send"
    /\ UNCHANGED <<termVars, sigPending, eaten,
                   keys, script, dev, errs, sigio, pcP, inbuf, pend, pcC,
                   quitBy, delivered, peeled, recvd, dec>>

\* syscall.Read(in, buf) fails with another error (always once the
\* descriptor is closed): bytesRead = 0, the error goes into the chunk
R_ReadError ==
    /\ pcR = "read"
    /\ \/ pcC = "closed" /\ errs' = errs
       \/ pcC # "closed" /\ errs < MaxErrors /\ errs' = errs + 1
    /\ chunk' = input_event(<<>>, TRUE)
    /\ pcR' = "send"
    /\ UNCHANGED <<termVars, sigPending, zeros, eaten,
                   keys, script, dev, sigio, pcP, inbuf, pend, pcC, quitBy,
                   delivered, peeled, recvd, dec>>

----------------------------------------------------------------------------
(* releaseConsole *)

\* quit <- 1 received by the reader, in either of its selects: return
Close_R ==
    /\ pcC = "open"
    /\ pcR \in {"wait", "send"}
    /\ pcR' = "stopped"
    /\ chunk' = NoChunk
    /\ pcC' = "sent"
    /\ quitBy' = "reader"
    /\ UNCHANGED <<termVars, sigPending, zeros, eaten,
                   keys, script, dev, errs, sigio, pcP, inbuf, pend,
                   delivered, peeled, recvd, dec>>

\* quit <- 1 received by the producer: in the loop's select it returns; in
\* produceEvent only produceEvent returns, and its caller goes on
Close_P ==
    /\ pcC = "open"
    /\ pcP \in {"recv", "emit", "emitErr"}
    /\ pcP' = IF pcP = "recv" THEN "stopped"
              ELSE IF pcP = "emitErr" THEN AfterErrorEvent ELSE "recv"
    /\ pend' = NoEvent
    /\ pcC' = "sent"
    /\ quitBy' = "producer"
    /\ UNCHANGED <<termVars, sigPending, zeros, eaten,
                   keys, script, dev, errs, sigio, pcR, chunk, inbuf,
                   delivered, peeled, recvd, dec>>

\* ioctl(ioctl_SETATTR, &orig_tios), its error ignored: the terminal's
\* attributes afterwards
RestoredAttrs(failed) == IF failed THEN tios ELSE orig_tios

\* ioctl(SETATTR, &orig_tios); out.Close(); unix.Close(in); return
CloseFinish ==
    /\ pcC = "sent"
    /\ pcC' = "closed"
    /\ \E failed \in BOOLEAN :
          /\ restoreErr' = failed
          /\ tios' = RestoredAttrs(failed)
    /\ outOpen' = FALSE
    /\ inOpen' = FALSE
    /\ UNCHANGED <<pcI, orig_tios, attr0, armed, sigPending, zeros, eaten,
                   keys, script, dev, errs, sigio, pcR, chunk, pcP, inbuf,
                   pend, quitBy, delivered, peeled, recvd, dec>>

----------------------------------------------------------------------------
(* initConsole *)

\* the zero value of unix.Termios
ZeroTios == [iflag |-> {}, lflag |-> {}, cflag |-> {}, vmin |-> 0, vtime |-> 0]

\* a terminal in its usual line mode: 8 bits, echo, canonical, signals
CookedTios ==
    [iflag |-> {"ICRNL", "IXON"},
     lflag |-> {"ECHO", "ICANON", "ISIG", "IEXTEN"},
     cflag |-> {"CSIZE_LO", "CSIZE_HI", "CREAD"},
     vmin |-> 1, vtime |-> 0]

\* a 7-bit terminal with parity, and a read timeout
SevenBitTios ==
    [iflag |-> {"ISTRIP", "IGNPAR"},
     lflag |-> {"ECHO"},
     cflag |-> {"CSIZE_HI", "PARENB", "CREAD"},
     vmin |-> 0, vtime |-> 5]

\* the attributes the terminal may have when initConsole is called
Attrs == {CookedTios, SevenBitTios}

\* tios.Iflag &^= ...; tios.Lflag &^= ...; tios.Cflag &^= CSIZE | PARENB;
\* tios.Cflag |= CS8; VMIN = 1; VTIME = 0.  CSIZE is a field of two bits,
\* both set in CS8.
MakeRaw(t) ==
    [iflag |-> t.iflag \ {"IGNBRK", "BRKINT", "PARMRK", "ISTRIP", "INLCR",
                          "IGNCR", "ICRNL", "IXON"},
     lflag |-> t.lflag \ {"ECHO", "ECHONL", "ICANON", "ISIG", "IEXTEN"},
     cflag |-> (t.cflag \ {"CSIZE_LO", "CSIZE_HI", "PARENB"})
                  \cup {"CSIZE_LO", "CSIZE_HI"},
     vmin |-> 1, vtime |-> 0]

\* the steps of initConsole that can fail, in order: 1 open out, 2 open in,
\* 3 setup_term, 4 fcntl F_SETFL, 5 fcntl F_SETOWN, 6 ioctl GETATTR,
\* 7 ioctl SETATTR
OpenSteps ==
    <<"out", "in", "terminfo", "setfl", "setown", "getattr", "setattr">>

\* the mutant saves the attributes after raw mode is applied
SavedAttrs_AfterRaw(t) == MakeRaw(t)

\* ioctl(ioctl_GETATTR, &orig_tios) on a terminal with the attributes t
SavedAttrs(t) == t

\* initConsole, failing at step fail (Len(OpenSteps) + 1: no step fails).
\* owned = FALSE with fail > 5: F_SETOWN failed and GOOS is darwin, so the
\* error is ignored.  Each error path is a plain return.
initConsole ==
    /\ pcI = "new"
    /\ \E fail \in 1..(Len(OpenSteps) + 1), owned \in BOOLEAN :
          /\ fail < 5 => owned
          /\ fail = 5 => ~owned
          /\ outOpen' = (fail > 1)
          /\ inOpen' = (fail > 2)
          /\ armed' = (fail > 5 /\ owned)
          /\ orig_tios' = IF fail > 6 THEN SavedAttrs(tios) ELSE orig_tios
          /\ tios' = IF fail > 7 THEN MakeRaw(orig_tios') ELSE tios
          /\ pcI' = IF fail > 7 THEN "ok" ELSE "failed"
          /\ pcR' = IF fail > 7 THEN "wait" ELSE pcR
          /\ pcP' = IF fail > 7 THEN "start" ELSE pcP
    /\ UNCHANGED <<attr0, restoreErr, sigPending, zeros, eaten,
                   keys, script, dev, errs, sigio, chunk, inbuf, pend, pcC,
                   quitBy, delivered, peeled, recvd, dec>>

----------------------------------------------------------------------------
(* Specifications *)

InitCommon ==
    /\ keys \in Tables
    /\ dev = <<>>
    /\ errs = 0
    /\ sigio = FALSE
    /\ chunk = NoChunk
    /\ pend = NoEvent
    /\ pcC = "open"
    /\ quitBy = "none"
    /\ delivered = <<>>
    /\ peeled = <<>>
    /\ recvd = <<>>
    /\ dec = [in |-> <<>>, size |-> 0, ev |-> NoEvent]
    /\ restoreErr = FALSE
    /\ sigPending = FALSE
    /\ zeros = 0
    /\ eaten = <<>>

\* the package variables as initialised, before initConsole is called
Init ==
    /\ InitCommon
    /\ script \in Scripts
    /\ inbuf = <<>>
    /\ pcI = "new"
    /\ pcR = "idle"
    /\ pcP = "idle"
    /\ attr0 \in Attrs
    /\ tios = attr0
    /\ orig_tios = ZeroTios
    /\ outOpen = FALSE
    /\ inOpen = FALSE
    /\ armed = FALSE

Next ==
    \/ initConsole
    \/ Arrive
    \/ SigDeliver
    \/ R_Wake
    \/ R_ReadAgain
    \/ R_ReadData
    \/ R_ReadZero
    \/ R_ReadError
    \/ Transfer
    \/ P_Start
    \/ P_Emit
    \/ Close_R
    \/ Close_P
    \/ CloseFinish

Spec == Init /\ [][Next]_vars

\* the decoder harness: the producer's first decode on every buffer, in the
\* state initConsole leaves when it returns nil
DecodeInit ==
    /\ InitCommon
    /\ script = <<>>
    /\ inbuf \in Buffers
    /\ pcI = "ok"
    /\ pcR = "wait"
    /\ pcP = "start"
    /\ attr0 = CookedTios
    /\ tios = MakeRaw(CookedTios)
    /\ orig_tios = CookedTios
    /\ outOpen = TRUE
    /\ inOpen = TRUE
    /\ armed = TRUE

DecodeNext == P_Start

DecodeSpec == DecodeInit /\ [][DecodeNext]_vars

----------------------------------------------------------------------------
(* Operators the properties are written with *)

RECURSIVE ConcatData(_)
\* the bytes of a sequence of chunks, in order
ConcatData(cs) ==
    IF cs = <<>> THEN <<>> ELSE Head(cs).data \o ConcatData(Tail(cs))

IsPrefix(s, t) == Len(s) <= Len(t) /\ SubSeq(t, 1, Len(s)) = s

\* every chunk received so far is an error-free chunk of exactly one byte
OneByteChunks == \A i \in 1..Len(recvd) : ~recvd[i].err /\ Len(recvd[i].data) = 1

\* the bytes of the run in the order the terminal sends them: received by
\* the producer, held by the reader, waiting on the device, still to come
Whole == ConcatData(recvd) \o chunk.data \o dev \o script

\* some table entry is a prefix of b
SomeEntryMatches(b) == \E i \in 1..Len(keys) : HasPrefix(b, keys[i])

\* b is a proper prefix of some table entry
ProperPrefixOfEntry(b) ==
    \E i \in 1..Len(keys) : IsPrefix(b, keys[i]) /\ Len(b) < Len(keys[i])

\* a step of the reader or of the producer (with a consumer that receives
\* and the runtime delivering a raised signal)
TaskStep ==
    \/ R_Wake
    \/ R_ReadAgain
    \/ R_ReadData
    \/ R_ReadZero
    \/ R_ReadError
    \/ SigDeliver
    \/ Transfer
    \/ P_Start
    \/ P_Emit

BothStopped == pcR = "stopped" /\ pcP = "stopped"

----------------------------------------------------------------------------
(* Claims *)

\* C1: once close() has returned, both the reader and the producer reach
\* Stopped: a task that is not Stopped can still take a step (neither is left
\* blocked for good on a channel or on the readiness wait).
C1_BothTasksStop == pcC = "closed" => (BothStopped \/ ENABLED TaskStep)

\* C2: when the quit signal wins in produceEvent the producer stops at once,
\* and once close() has returned no event is delivered to the consumer and
\* the decoder is not run any more.
C2_NothingAfterClose ==
    [][ /\ (pcP = "emit" /\ quitBy = "none" /\ quitBy' = "producer")
            => pcP' = "stopped"
        /\ pcC = "closed" => (delivered' = delivered /\ dec' = dec) ]_vars

\* C3: the consumer receives the events in the order their bytes were read,
\* and without cancellation the producer drops no decodable event: when it
\* has stopped, every event it decoded was delivered and nothing decodable
\* is left in the buffer.
C3_OrderedNoDrop ==
    /\ quitBy # "producer" => IsPrefix(delivered, peeled)
    /\ (quitBy = "none" /\ pcP = "stopped")
          => (delivered = peeled /\ extract_event(inbuf, keys)[1] = 0)

\* C4: the producer goes back to waiting for the next chunk only when the
\* decoder reports consumed = 0 on the buffer.
C4_DecodeUntilZero ==
    (pcC = "open" /\ pcP = "recv") => extract_event(inbuf, keys)[1] = 0

\* C5: a read error is reported exactly once and last: an error event is the
\* last event the consumer receives, it follows the events produced before
\* it (all of them, when the producer was not cancelled), the producer is
\* Stopped after it, and a stopped, uncancelled producer that received an
\* error chunk has delivered the error event.
C5_ErrorOnceAndLast ==
    /\ \A i \in 1..Len(delivered) :
          delivered[i].err =>
             /\ i = Len(delivered)
             /\ pcP = "stopped"
             /\ recvd # <<>> /\ recvd[Len(recvd)].err
             /\ quitBy # "producer" => delivered = peeled
    /\ (pcP = "stopped" /\ quitBy # "producer")
          => (delivered # <<>> /\ delivered[Len(delivered)].err)

\* the consumer saw X, Y, then the error, while the reader holds a second
\* error chunk that nobody receives
C5_Witness ==
    /\ pcC = "open"
    /\ Len(delivered) = 3
    /\ ~delivered[1].err /\ ~delivered[2].err /\ delivered[3].err
    /\ pcP = "stopped"
    /\ pcR = "send" /\ chunk.err

\* C6: a buffer that starts with ESC and is a proper prefix of a table entry,
\* with no entry matching it yet, decodes to consumed = 0 and no event, so no
\* event is produced before the last byte of an escape sequence fed one byte
\* per chunk.
C6_AmbiguousEscapeWaits ==
    /\ (dec.in # <<>> /\ dec.in[1] = ESC /\ ProperPrefixOfEntry(dec.in)
          /\ ~SomeEntryMatches(dec.in))
          => (dec.size = 0 /\ dec.ev = NoEvent)
    /\ (OneByteChunks /\ ConcatData(recvd) # <<>>
          /\ ConcatData(recvd)[1] = ESC
          /\ ProperPrefixOfEntry(ConcatData(recvd))
          /\ ~SomeEntryMatches(ConcatData(recvd)))
          => peeled = <<>>

\* C7: a valid 3-byte UTF-8 encoding that reaches the producer as three
\* 1-byte chunks gives no event after the first and the second chunk and
\* exactly one scalar event, with the buffer empty, after the third.
C7_SplitScalar ==
    (Len(Whole) = 3 /\ DecodeRune(Whole)[2] = 3 /\ OneByteChunks)
       => IF Len(recvd) < 3
          THEN peeled = <<>>
          ELSE /\ peeled = <<RuneEv(DecodeRune(Whole)[1])>>
               /\ inbuf = <<>>

\* C8 as stated: a buffer equal to a table entry's literal decodes to that
\* entry, whatever the order of the table.
C8_ExactEntryWins ==
    \A i \in 1..Len(keys) :
       (pcP # "start" /\ dec.in = keys[i])
          => (dec.size = Len(keys[i]) /\ dec.ev = KeyEv(KeyMax - (i - 1)))

\* C8 as amended: a buffer equal to a table entry's literal decodes to the
\* first entry, in table order, that is a prefix of it; that is the entry
\* itself when no earlier entry is a prefix of it.
C8_FirstPrefixEntryWins ==
    \A i \in 1..Len(keys) :
       (pcP # "start" /\ dec.in = keys[i])
          => LET j == Min({k \in 1..i : HasPrefix(keys[i], keys[k])}) IN
             /\ dec.size = Len(keys[j])
             /\ dec.ev = KeyEv(KeyMax - (j - 1))
             /\ (\A k \in 1..(i - 1) : ~HasPrefix(keys[i], keys[k])) => j = i

\* ESC O P decoded with the longer entry first and the shorter one after it
C8_Witness ==
    /\ pcP = "emit"
    /\ keys = TableLongFirst
    /\ dec.in = <<27, 79, 80>>
    /\ dec.size = 3
    /\ pend = KeyEv(KeyMax)

\* C9: a buffer that starts with ESC and that no table entry is a prefix of
\* decodes to Esc with the whole buffer consumed; nothing is left.
C9_UnmatchedEscape ==
    (pcP # "start" /\ dec.in # <<>> /\ dec.in[1] = ESC
       /\ ~SomeEntryMatches(dec.in))
       => /\ dec.size = Len(dec.in)
          /\ dec.ev = KeyEv(KeyEsc)
          /\ pend = KeyEv(KeyEsc)
          /\ inbuf = <<>>

\* ESC Z: one Esc event, 2 bytes consumed
C9_Witness ==
    /\ pcP = "emit"
    /\ dec.in = <<27, 90>>
    /\ dec.size = 2
    /\ pend = KeyEv(KeyEsc)
    /\ inbuf = <<>>

\* C10: extract_event returns 0 <= consumed <= len(buffer); the head removal
\* stays inside the buffer and leaves len(buffer) - consumed bytes.
C10_ConsumedBound ==
    pcP # "start"
       => /\ dec.size \in 0..Len(dec.in)
          /\ pcP # "panic"
          /\ Len(inbuf) + dec.size = Len(dec.in)

\* a decode that consumes a whole 3-byte buffer
C10_Witness ==
    /\ pcP = "emit"
    /\ Len(dec.in) = 3
    /\ dec.size = 3
    /\ dec.ev.rune # 0
    /\ inbuf = <<>>

----------------------------------------------------------------------------
(* Operators the later properties are written with *)

\* one non-blocking read of the reader's drain loop
ReaderRead ==
    \/ R_ReadAgain
    \/ R_ReadData
    \/ R_ReadZero
    \/ R_ReadError

\* the first byte of b is not ESC, not a functional key, and no byte a
\* UTF-8 encoding can start with (0x80..0xC1, 0xF5..0xFF)
BadHead(b) ==
    /\ b # <<>>
    /\ b[1] # ESC
    /\ b[1] > KeySpace
    /\ b[1] # KeyBackspace2
    /\ (b[1] \in 128..193 \/ b[1] > 244)

\* s grew by one element, x
GrewBy(s, t, x) == t = Append(s, x)

----------------------------------------------------------------------------
(* Claims, continued *)

\* C11: after a successful open(), in every state of the two tasks a call
\* of close() gets through: a select that receives quit is ready, or the
\* reader is in a non-blocking read that takes it to such a select; then
\* the rest of releaseConsole runs without blocking.
C11_CloseReturns ==
    /\ (pcI = "ok" /\ pcC = "open")
          => \/ ENABLED Close_R
             \/ ENABLED Close_P
             \/ (pcR = "read" /\ ENABLED ReaderRead)
    /\ pcC = "sent" => ENABLED CloseFinish

\* close() returned, the quit taken by the reader, after the producer had
\* stopped on a read error
C11_Witness ==
    /\ pcC = "closed"
    /\ quitBy = "reader"
    /\ pcP = "stopped"
    /\ delivered # <<>> /\ delivered[Len(delivered)].err

\* C12 as stated: open() saves the attributes before it applies raw mode,
\* and after close() the terminal has the attributes it had before open().
C12_AttrsRestored ==
    /\ pcI = "ok" => orig_tios = attr0
    /\ pcC = "closed" => tios = attr0

\* C12 as amended: open() saves the attributes before it applies raw mode;
\* between open() and close() the terminal is in raw mode; after close() it
\* has the attributes it had before open() when the restoring ioctl
\* succeeded, and stays in raw mode when that ioctl failed.
C12_AttrsRestoredIfIoctlSucceeds ==
    /\ pcI = "ok" => orig_tios = attr0
    /\ (pcI = "ok" /\ pcC # "closed") => tios = MakeRaw(attr0)
    /\ pcC = "closed" => tios = IF restoreErr THEN MakeRaw(attr0) ELSE attr0

\* open(), events delivered, close(): the attributes are back
C12_Witness ==
    /\ pcC = "closed"
    /\ ~restoreErr
    /\ tios = attr0
    /\ attr0 # MakeRaw(attr0)
    /\ delivered # <<>>

\* C13: when initConsole returns an error, the descriptors it opened are
\* closed, the terminal's attributes are unchanged and no task runs.
C13_FailedSetupLeavesNothing ==
    pcI = "failed"
       => /\ ~outOpen
          /\ ~inOpen
          /\ tios = attr0
          /\ pcR = "idle"
          /\ pcP = "idle"

\* C14: once the reader holds an error chunk, its one delivery attempt ends
\* with the reader Stopped: no further read, no further delivery.
C14_ReaderStopsOnError ==
    [][(pcR = "send" /\ chunk.err /\ pcR' # "send") => pcR' = "stopped"]_vars

\* C15: when the producer receives a chunk with no bytes and no error, the
\* buffer stays as it is and no event is produced.
C15_EmptyChunkNoEffect ==
    [][(pcR = "send" /\ ~chunk.err /\ chunk.data = <<>>
          /\ GrewBy(recvd, recvd', chunk))
         => (inbuf' = inbuf /\ peeled' = peeled /\ pcP' = "recv")]_vars

\* C16: a buffer whose first byte is not ESC, above Space and not
\* Backspace2 decodes to the scalar at its head, with consumed = the length
\* of its encoding, when the head is a complete valid UTF-8 encoding, and
\* to consumed = 0 and no event otherwise.
C16_ScalarDecoding ==
    (pcP # "start" /\ dec.in # <<>> /\ dec.in[1] # ESC
       /\ dec.in[1] > KeySpace /\ dec.in[1] # KeyBackspace2)
       => LET d == DecodeRune(dec.in) IN
          IF d # <<RuneError, 1>>
          THEN dec.size = d[2] /\ dec.ev = RuneEv(d[1])
          ELSE dec.size = 0 /\ dec.ev = NoEvent

\* C17: the empty buffer gives consumed = 0 and no event; a first byte ESC
\* gives what the escape rule gives (a table entry that is a prefix of the
\* buffer, or Esc with the whole buffer consumed), never the 1-byte key of
\* the functional rule; another first byte that is <= Space or Backspace2
\* gives consumed = 1 and that byte as the key, whatever follows it.
C17_SingleByteRules ==
    pcP # "start"
       => /\ dec.in = <<>> => (dec.size = 0 /\ dec.ev = NoEvent)
          /\ (dec.in # <<>> /\ dec.in[1] = ESC)
                => IF SomeEntryMatches(dec.in)
                   THEN \E i \in 1..Len(keys) :
                           /\ HasPrefix(dec.in, keys[i])
                           /\ dec.size = Len(keys[i])
                           /\ dec.ev = KeyEv(KeyMax - (i - 1))
                   ELSE dec.size = Len(dec.in) /\ dec.ev = KeyEv(KeyEsc)
          /\ (dec.in # <<>> /\ dec.in[1] # ESC
                /\ (dec.in[1] <= KeySpace \/ dec.in[1] = KeyBackspace2))
                => (dec.size = 1 /\ dec.ev = KeyEv(dec.in[1]))

\* Backspace2 followed by the start of an escape sequence: one byte consumed
C17_Witness ==
    /\ pcP = "emit"
    /\ dec.in = <<127, 27, 79>>
    /\ dec.size = 1
    /\ pend = KeyEv(KeyBackspace2)
    /\ inbuf = <<27, 79>>

\* C18: the bytes removed from the head of the buffer, followed by the
\* buffer, are the bytes of the chunks received, in order; the buffer
\* changes only by a received chunk appended at its tail and by the
\* decoder's consumed count removed from its head.
C18_ByteConservation ==
    /\ [](eaten \o inbuf = ConcatData(recvd))
    /\ [][inbuf' # inbuf
            => LET grown == IF recvd' # recvd
                            THEN inbuf \o recvd'[Len(recvd')].data
                            ELSE inbuf
               IN /\ dec'.in = grown
                  /\ dec'.size <= Len(grown)
                  /\ inbuf' = SubSeq(grown, dec'.size + 1, Len(grown))
                  /\ eaten' = eaten \o SubSeq(grown, 1, dec'.size)]_vars

\* bytes were removed from the head while later bytes stay in the buffer
C18_Witness ==
    /\ eaten # <<>>
    /\ inbuf # <<>>
    /\ Len(recvd) >= 2
    /\ Len(eaten) + Len(inbuf) = Len(ConcatData(recvd))

\* C19 as stated: once the head of the buffer is a byte no event can start
\* with, the decoder consumes nothing, the buffer never shrinks and no key
\* event is delivered any more (only an error event).
C19_StallNoDelivery ==
    [][BadHead(inbuf)
         => /\ IsPrefix(inbuf, inbuf')
            /\ dec' # dec => dec'.size = 0
            /\ delivered' # delivered
                  => delivered'[Len(delivered')].err]_vars

\* C19 as amended: once the head of the buffer is a byte no event can start
\* with, the decoder consumes nothing, the buffer never shrinks and the
\* producer decodes no key event any more: the consumer still receives the
\* one event the producer was already forwarding, and after it only an
\* error event.
C19_StallNoDecode ==
    [][BadHead(inbuf)
         => /\ IsPrefix(inbuf, inbuf')
            /\ BadHead(inbuf')
            /\ dec' # dec => dec'.size = 0
            /\ peeled' = peeled \/ GrewBy(peeled, peeled', ErrEv)
            /\ delivered' # delivered
                  => \/ delivered'[Len(delivered')].err
                     \/ pcP = "emit" /\ GrewBy(delivered, delivered', pend)]_vars

\* the invalid byte heads the buffer, a later chunk was appended behind it
\* and nothing was decoded
C19_Witness ==
    /\ BadHead(inbuf)
    /\ Len(inbuf) >= 2
    /\ Len(recvd) >= 2
    /\ pcP = "recv"
    /\ peeled = <<>>

\* C20: with SIGIO armed, the reader never waits for a signal while unread
\* bytes are on the device and no notification is raised or pending; and
\* while unread bytes are on the device, with no cancellation and no read
\* error, a step of the signal delivery, the reader, the producer or the
\* consumer is possible.
C20_NoLostWakeup ==
    /\ (armed /\ pcR = "wait" /\ dev # <<>>) => (sigio \/ sigPending)
    /\ (armed /\ pcI = "ok" /\ pcC = "open" /\ errs = 0 /\ dev # <<>>)
          => ENABLED (SigDeliver \/ R_Wake \/ ReaderRead \/ Transfer
                        \/ P_Start \/ P_Emit)

\* a notification is raised while one is pending (it will be dropped), after
\* the reader has already drained the device once
C20_Witness ==
    /\ armed
    /\ pcR = "wait"
    /\ dev # <<>>
    /\ sigio /\ sigPending
    /\ recvd # <<>>

=============================================================================
